---- MODULE Spec2Model ----
(***************************************************************************)
(* Model of app.py: the Shiny plot handler (server.plot) and the chart     *)
(* function f_create_chart, which turn (sex, age, year, region) and the    *)
(* life table dat_df into the exceedance curve and the conditional death   *)
(* values drawn on the second axis.                                        *)
(*                                                                         *)
(* Representation.  A Python str is a TLA+ string.  A pandas Series of     *)
(* 101 values (positions 0..100) is a sequence of length 101 (position p   *)
(* is element p+1).  A float is an exact fraction [nan, num, den]:         *)
(* nan = TRUE is NaN, den = 0 with num # 0 is +-inf, otherwise num/den.    *)
(***************************************************************************)
EXTENDS Integers, Sequences, FiniteSets, TLC

VARIABLES
    dat_df,    \* the table loaded at import time: key "YYYY-GG-S" -> row
    figs,      \* number of figures in pyplot's global figure registry
    inp,       \* the inputs of the latest request
    out,       \* what the latest request computed and how it ended
    ref,       \* a remembered earlier request (inputs and curves)
    between    \* what ran after the remembered request: "none", "other"
               \* (requests with other inputs) or "same_row" (one of them
               \* read the remembered request's row and returned a figure)

vars == <<dat_df, figs, inp, out, ref, between>>

----------------------------------------------------------------------------
(* Bounds of the model *)

NumTables == 1      \* number of different loaded tables Init draws from
MaxFigs == 5        \* requests stop once the registry holds this many

(* Program constants *)

CohortSize == 100000    \* divisor of sur0_s
MaxAge == 100           \* last age column / last age drawn

----------------------------------------------------------------------------
(* Python built-ins used by the code *)

Max(a, b) == IF a >= b THEN a ELSE b
Min(a, b) == IF a <= b THEN a ELSE b

DigitChars == <<"0", "1", "2", "3", "4", "5", "6", "7", "8", "9">>

RECURSIVE StrNat(_)
StrNat(n) ==
    IF n < 10 THEN DigitChars[n + 1]
    ELSE StrNat(n \div 10) \o DigitChars[(n % 10) + 1]

\* str(n) for an int
Str(n) == IF n < 0 THEN "-" \o StrNat(-n) ELSE StrNat(n)

RECURSIVE Zeros(_)
Zeros(k) == IF k <= 0 THEN "" ELSE "0" \o Zeros(k - 1)

\* s.zfill(width): pads on the left with "0", after a leading sign
Zfill(s, width) ==
    IF Len(s) >= width THEN s
    ELSE IF Len(s) > 0 /\ SubSeq(s, 1, 1) \in {"-", "+"}
         THEN SubSeq(s, 1, 1) \o Zeros(width - Len(s)) \o SubSeq(s, 2, Len(s))
         ELSE Zeros(width - Len(s)) \o s

\* a slice bound clamped the way Python clamps it, for a sequence of length n
SliceIndex(i, n) == IF i < 0 THEN Max(0, n + i) ELSE Min(i, n)

\* s[start:stop] (str, or positional slice of a Series)
PySlice(s, start, stop) ==
    SubSeq(s, SliceIndex(start, Len(s)) + 1, SliceIndex(stop, Len(s)))

\* s[start:] / s.iloc[start:]
PySliceFrom(s, start) == PySlice(s, start, Len(s))

\* len(range(a, b))
RangeLen(a, b) == Max(0, b - a)

\* s.iloc[i] is defined for -len <= i < len
IlocOk(s, i) == -Len(s) <= i /\ i < Len(s)
Iloc(s, i) == IF i < 0 THEN s[Len(s) + i + 1] ELSE s[i + 1]

----------------------------------------------------------------------------
(* Floats as exact fractions *)

NaN == [nan |-> TRUE, num |-> 0, den |-> 1]
Ratio(n, d) == [nan |-> FALSE, num |-> n, den |-> d]

IsFinite(v) == ~v.nan /\ v.den # 0

RECURSIVE GCD(_, _)
GCD(a, b) == IF b = 0 THEN a ELSE GCD(b, a % b)

\* x - y
Sub(x, y) ==
    IF x.nan \/ y.nan THEN NaN
    ELSE IF x.den = y.den THEN Ratio(x.num - y.num, x.den)
    ELSE Ratio(x.num * y.den - y.num * x.den, x.den * y.den)

\* x + y
Add(x, y) ==
    IF x.nan \/ y.nan THEN NaN
    ELSE IF x.den = y.den THEN Ratio(x.num + y.num, x.den)
    ELSE Ratio(x.num * y.den + y.num * x.den, x.den * y.den)

\* x / y as numpy divides floats: 0/0 is NaN, a/0 is +-inf, no exception
Div(x, y) ==
    IF x.nan \/ y.nan THEN NaN
    ELSE IF y.num = 0 THEN (IF x.num = 0 THEN NaN ELSE Ratio(x.num, 0))
    ELSE IF x.den = y.den THEN Ratio(x.num, y.num)
    ELSE LET g == GCD(x.den, y.den)
         IN Ratio(x.num * (y.den \div g), y.num * (x.den \div g))

\* -x
Neg(x) == IF x.nan THEN NaN ELSE Ratio(-x.num, x.den)

\* the numerator and denominator of a non-NaN value with the sign carried by
\* the numerator, so that the denominator is >= 0
SignedNum(x) == IF x.den < 0 THEN -x.num ELSE x.num
AbsDen(x) == IF x.den < 0 THEN -x.den ELSE x.den

IsPosInf(x) == ~x.nan /\ x.den = 0 /\ x.num > 0
IsNegInf(x) == ~x.nan /\ x.den = 0 /\ x.num < 0

\* x <= y for two non-NaN floats: -inf <= everything, everything <= +inf,
\* inf <= inf and -inf <= -inf hold, finite values compare as fractions
Leq(x, y) ==
    CASE IsNegInf(x) -> TRUE
      [] IsPosInf(y) -> TRUE
      [] IsPosInf(x) -> FALSE
      [] IsNegInf(y) -> FALSE
      [] AbsDen(x) = AbsDen(y) -> SignedNum(x) <= SignedNum(y)
      [] OTHER -> SignedNum(x) * AbsDen(y) <= SignedNum(y) * AbsDen(x)

----------------------------------------------------------------------------
(* pandas Series operations used by f_create_chart *)

\* a variant of Sur0 that divides by a cohort of 10000
Sur0Mut(row) == [i \in 1..Len(row) |-> Ratio(row[i], CohortSize \div 10)]

\* row / 100000
Sur0(row) == [i \in 1..Len(row) |-> Ratio(row[i], CohortSize)]

\* -s.diff(): NaN at position 0, s[p-1] - s[p] at position p >= 1
NegDiff(s) ==
    [i \in 1..Len(s) |-> IF i = 1 THEN NaN ELSE Neg(Sub(s[i], s[i - 1]))]

\* the sum of the non-NaN entries of s[lo..hi], halving the range
RECURSIVE SumRange(_, _, _)
SumRange(s, lo, hi) ==
    IF lo > hi THEN Ratio(0, 1)
    ELSE IF lo = hi THEN (IF s[lo].nan THEN Ratio(0, 1) ELSE s[lo])
    ELSE LET mid == (lo + hi) \div 2
         IN Add(SumRange(s, lo, mid), SumRange(s, mid + 1, hi))

\* s.sum(): NaN entries are skipped, the sum of nothing is 0
SumSkipNa(s) == SumRange(s, 1, Len(s))

\* the largest non-NaN entry of s[lo..hi] (NaN if there is none), halving
\* the range
RECURSIVE MaxRange(_, _, _)
MaxRange(s, lo, hi) ==
    IF lo > hi THEN NaN
    ELSE IF lo = hi THEN s[lo]
    ELSE LET mid == (lo + hi) \div 2
             a == MaxRange(s, lo, mid)
             b == MaxRange(s, mid + 1, hi)
         IN IF a.nan THEN b
            ELSE IF b.nan THEN a
            ELSE IF Leq(a, b) THEN b ELSE a

\* s.max(): NaN entries are skipped, the max of nothing is NaN
MaxSkipNa(s) == MaxRange(s, 1, Len(s))

\* s / y, element by element
DivAll(s, y) == [i \in 1..Len(s) |-> Div(s[i], y)]

----------------------------------------------------------------------------
(* Common auxiliaries *)

\* a variant of cod2pro_d that knows every two-digit code
cod2pro_dMut ==
    [c \in {Zfill(Str(g), 2) : g \in 0..99} |-> "ESP"]

\* the province codes and their labels

cod2pro_d ==
    ("01" :> "ALA") @@ ("02" :> "ALB") @@ ("03" :> "ALI") @@ ("04" :> "ALM") @@
    ("05" :> "AVI") @@ ("06" :> "BAD") @@ ("07" :> "BAL") @@ ("08" :> "BAR") @@
    ("09" :> "BUR") @@ ("10" :> "CAC") @@ ("11" :> "CAD") @@ ("12" :> "CAS") @@
    ("13" :> "CIU") @@ ("14" :> "COR") @@ ("15" :> "LAC") @@ ("16" :> "CUE") @@
    ("17" :> "GER") @@ ("18" :> "GRA") @@ ("19" :> "GUA") @@ ("20" :> "GUI") @@
    ("21" :> "HUL") @@ ("22" :> "HUE") @@ ("23" :> "JAE") @@ ("24" :> "LEO") @@
    ("25" :> "LER") @@ ("26" :> "RIO") @@ ("27" :> "LUG") @@ ("28" :> "MAD") @@
    ("29" :> "MAL") @@ ("30" :> "MUR") @@ ("31" :> "NAV") @@ ("32" :> "ORE") @@
    ("33" :> "AST") @@ ("34" :> "PAL") @@ ("35" :> "PLM") @@ ("36" :> "PON") @@
    ("37" :> "SAL") @@ ("38" :> "TEN") @@ ("39" :> "CAN") @@ ("40" :> "SEG") @@
    ("41" :> "SEV") @@ ("42" :> "SOR") @@ ("43" :> "TAR") @@ ("44" :> "TER") @@
    ("45" :> "TOL") @@ ("46" :> "VLC") @@ ("47" :> "VLL") @@ ("48" :> "VIZ") @@
    ("49" :> "ZAM") @@ ("50" :> "ZAR") @@ ("00" :> "ESP")

----------------------------------------------------------------------------
(* The survival data read at import time.  The file itself is data outside *)
(* the source; its shape is the one f_create_chart documents: index        *)
(* YYYY-GG-S, columns for ages 0..100, and before 1975 only YYYY-00-S.     *)
(* The loaded tables hold the years of YearsLoaded.                        *)

Sexes == {"M", "F", "T"}
YearsLoaded == {1974, 1975}

SexIx(sex) == CASE sex = "M" -> 0 [] sex = "F" -> 1 [] OTHER -> 2

\* survivor counts: start, linear and quadratic decay per year of age
RowShapes ==
    << <<100000, 1000, 0>>,     \* equal deaths at every age, extinct at 100
       <<100000, 0, 10>>,       \* deaths growing with age, extinct at 100
       <<100000, 2000, 0>>,     \* extinct at 50: flat tail from age 50 on
       <<99000, 500, 3>> >>     \* survivors left at age 100

Row(shape) ==
    [i \in 1..(MaxAge + 1) |->
        Max(0, shape[1] - shape[2] * (i - 1) - shape[3] * (i - 1) * (i - 1))]

KeyParts ==
    {<<y, g, s>> \in YearsLoaded \X (0..50) \X Sexes : y >= 1975 \/ g = 0}

KeyOf(p) == Str(p[1]) \o "-" \o Zfill(Str(p[2]), 2) \o "-" \o p[3]

Table(seed) ==
    [k \in {KeyOf(p) : p \in KeyParts} |->
        LET p == CHOOSE q \in KeyParts : KeyOf(q) = k
        IN Row(RowShapes[((p[1] + p[2] + SexIx(p[3]) + seed) % Len(RowShapes)) + 1])]

Tables == {Table(seed) : seed \in 0..(NumTables - 1)}

----------------------------------------------------------------------------
(* f_create_chart.  plt.subplots() and plt.figure(...) each register a new  *)
(* figure with pyplot; the function closes neither.  The matplotlib calls  *)
(* that can fail are modelled by their checks: plot() raises ValueError    *)
(* when x and y differ in length, set_ylim() raises ValueError for a limit *)
(* that is NaN or Inf; plot() draws nothing for a NaN or Inf value and     *)
(* raises nothing.                                                         *)

\* What a request leaves behind.  exc/line: the exception that ended it and
\* the source line that raised it ("None": it returned); key: the table key
\* it built ("" if it built none); geo: the region label it built; looked:
\* dat_df.loc was evaluated; opened: figures it added to pyplot's registry;
\* sur0: the exceedance curve sur0_s; drawn: the values drawn on ax2, the
\* k-th being the one drawn at age idx = age + k; fig: a figure was returned.
NoResult ==
    [exc |-> "None", line |-> 0, key |-> "", geo |-> "", looked |-> FALSE,
     opened |-> 0, sur0 |-> <<>>, drawn |-> <<>>, fig |-> FALSE]

Raise(r, exc, line) == [r EXCEPT !.exc = exc, !.line = line]

\* the position of sur2_s drawn at age idx
DrawnPos(idx) == idx - 1

f_create_chart(df, sex, age, yea, geo) ==
    LET key == Str(yea) \o "-" \o PySlice(geo, 0, 2) \o "-" \o sex
        r0 == [NoResult EXCEPT !.key = key, !.geo = geo, !.looked = TRUE,
                               !.opened = 2]
    IN
    IF key \notin DOMAIN df THEN Raise(r0, "KeyError", 64)
    ELSE
    LET sur0_s == Sur0(df[key])
        r1 == [r0 EXCEPT !.sur0 = sur0_s]
    IN
    IF RangeLen(0, age + 1) # Len(PySlice(sur0_s, 0, age + 1))
        THEN Raise(r1, "ValueError", 65)
    ELSE IF RangeLen(age, MaxAge + 1) # Len(PySliceFrom(sur0_s, age))
        THEN Raise(r1, "ValueError", 66)
    ELSE IF ~IlocOk(sur0_s, age)
        THEN Raise(r1, "IndexError", 67)
    ELSE
    LET sur1_s == NegDiff(sur0_s)
        sur2_s == DivAll(sur1_s, SumSkipNa(PySliceFrom(sur1_s, age + 1)))
        idxs == [k \in 1..RangeLen(age + 1, MaxAge + 1) |-> age + k]
    IN
    IF \E k \in DOMAIN idxs : ~IlocOk(sur2_s, DrawnPos(idxs[k]))
        THEN Raise(r1, "IndexError", 74)
    ELSE
    LET r2 == [r1 EXCEPT !.drawn =
                  [k \in DOMAIN idxs |-> Iloc(sur2_s, DrawnPos(idxs[k]))]]
    IN
    \* set_ylim refuses a limit that is NaN or Inf
    IF ~IsFinite(MaxSkipNa(PySliceFrom(sur2_s, age + 1)))
        THEN Raise(r2, "ValueError", 85)
    ELSE [r2 EXCEPT !.fig = TRUE]

\* a variant of TableAfter that divides the row in place
TableAfterMut(df, key) ==
    IF key \in DOMAIN df
    THEN [df EXCEPT ![key] = [i \in 1..Len(@) |-> @[i] \div CohortSize]]
    ELSE df

\* the table after f_create_chart looked key up: dat_df.loc[key] / 100000
\* builds a new Series and nothing is assigned to dat_df, so the table is
\* left as it was
TableAfter(df, key) == df

----------------------------------------------------------------------------
(* server.plot *)

\* a variant of ResolveGeo with the threshold at 1970
ResolveGeoMut(yea, geo) == IF yea < 1970 THEN 0 ELSE geo

\* if yea < 1975: geo = 0 (before 1975 only the national table exists)
ResolveGeo(yea, geo) == IF yea < 1975 THEN 0 ELSE geo

plot(df, sex, age, yea, geo) ==
    LET geo_s == Zfill(Str(ResolveGeo(yea, geo)), 2)
    IN IF geo_s \notin DOMAIN cod2pro_d
       THEN Raise(NoResult, "KeyError", 176)
       ELSE f_create_chart(df, sex, age, yea, geo_s \o "-" \o cod2pro_d[geo_s])

----------------------------------------------------------------------------
(* The inputs the form sends.  The numeric fields are not range-checked by *)
(* the server, so values outside the form's min/max are inputs too.        *)

InSexes == {"M", "F"}
InAges == {-1, 0, 50, 99, 100}
InYears == {1974, 1975, 2023}
InGeos == {0, 50, 77}

Inputs == [sex : InSexes, age : InAges, yea : InYears, geo : InGeos]

\* the inputs of the runs that compare a request with an earlier one
PairInputs == [sex : {"M"}, age : {0, 50}, yea : {1974, 1975}, geo : InGeos]

NoInput == [sex |-> "", age |-> 0, yea |-> 0, geo |-> 0]

\* nothing remembered yet.  before: a request that computed curves ran
\* before the remembered one; key: the row the remembered request read
NoRef ==
    [set |-> FALSE, before |-> FALSE, inp |-> NoInput, key |-> "",
     sur0 |-> <<>>, drawn |-> <<>>]

----------------------------------------------------------------------------
(* The state machine *)

Init ==
    /\ dat_df \in Tables
    /\ figs = 0
    /\ inp = NoInput
    /\ out = [NoResult EXCEPT !.exc = "idle"]
    /\ ref = NoRef
    /\ between = "none"

\* figures @render.plot takes out of the registry: it saves the figure the
\* handler returned and closes it; a handler that raised returned none
RenderPlotCloses(o) == IF o.fig THEN 1 ELSE 0

\* one request: server.plot, the f_create_chart call it makes and the
\* rendering of what it returned
Serve(i) ==
    /\ figs + 2 <= MaxFigs
    /\ LET o == plot(dat_df, i.sex, i.age, i.yea, i.geo)
       IN /\ inp' = i
          /\ out' = o
          /\ figs' = figs + o.opened - RenderPlotCloses(o)
          /\ dat_df' = IF o.looked THEN TableAfter(dat_df, o.key) ELSE dat_df

Plot(i) == Serve(i) /\ UNCHANGED <<ref, between>>

Next == \E i \in Inputs : Plot(i)

Spec == Init /\ [][Next]_vars

\* the same request, observed: any one request of the run is remembered
\* (keep), and a note is taken of what ran after it
PlotPair(i) ==
    /\ Serve(i)
    /\ \E keep \in BOOLEAN :
          ref' = IF ref.set \/ ~keep THEN ref
                 ELSE [set |-> TRUE, before |-> out.sur0 # <<>>, inp |-> i,
                       key |-> out'.key, sur0 |-> out'.sur0,
                       drawn |-> out'.drawn]
    /\ between' =
          IF ~ref.set \/ i = ref.inp THEN between
          ELSE IF out'.fig /\ out'.key = ref.key THEN "same_row"
          ELSE IF between = "none" THEN "other"
          ELSE between

NextPair == \E i \in PairInputs : PlotPair(i)

SpecPair == Init /\ [][NextPair]_vars

----------------------------------------------------------------------------
(* What the claims speak about *)

\* a request has run
Served == out.exc # "idle"

\* the latest request got its row and computed sur0_s from it
Computed == Served /\ out.sur0 # <<>>

\* the row the latest request read, by age
RowAt(a) == dat_df[out.key][a + 1]

\* the normalising denominator row[age] - row[100], in survivor counts
TailCount == RowAt(inp.age) - RowAt(MaxAge)

\* the value drawn at age j by the latest request
DrawnAt(j) == out.drawn[j - inp.age]

\* a life-table row as the data model describes it
ValidRow(row) ==
    /\ Len(row) = MaxAge + 1
    /\ \A i \in 1..Len(row) : 0 <= row[i] /\ row[i] <= 100000
    /\ \A i \in 1..(Len(row) - 1) : row[i + 1] <= row[i]

\* the row read is valid and the reference age is in 0..99
ValidCase ==
    /\ Computed
    /\ ValidRow(dat_df[out.key])
    /\ inp.age \in 0..99

Undefined(v) == ~IsFinite(v)

\* the region is not one of the codes "00".."50"
UnknownRegion(g) == Zfill(Str(g), 2) \notin {Zfill(Str(k), 2) : k \in 0..50}

----------------------------------------------------------------------------
(* C1 *)

\* C1: for a valid row and a reference age in 0..99 with row[age] - row[100]
\* nonzero, the values drawn at the ages age+1..100 are each >= 0 and sum to
\* exactly 1: their numerators add up to the denominator row[age] - row[100].
C1_DrawnSumToOne ==
    (ValidCase /\ TailCount # 0) =>
        /\ Len(out.drawn) = MaxAge - inp.age
        /\ \A k \in 1..Len(out.drawn) :
              IsFinite(out.drawn[k]) /\ out.drawn[k].num >= 0
        /\ LET tot == SumSkipNa(out.drawn) IN tot.num = tot.den

(* C2 *)

\* C2: for reference age 99 and a valid row with row[99] > row[100], exactly
\* one value is drawn, at age 100, and it equals 1.
C2_LastAgeIsOne ==
    (ValidCase /\ inp.age = 99 /\ TailCount > 0) =>
        /\ Len(out.drawn) = 1
        /\ IsFinite(DrawnAt(100))
        /\ DrawnAt(100).num = DrawnAt(100).den

(* C3 *)

\* C3: when the normalising sum is zero (row[age] = row[100]) the request ends
\* in a DegenerateDistribution error, no conditional value is produced and no
\* undefined value (NaN or Inf) reaches the drawing.
C3_DegenerateIsAnError ==
    (ValidCase /\ TailCount = 0) =>
        /\ out.exc = "DegenerateDistribution"
        /\ out.drawn = <<>>
        /\ \A k \in 1..Len(out.drawn) : ~Undefined(out.drawn[k])

(* C4 *)

\* C4: for a year below 1975 the handler builds the key "YYYY-00-S" and the
\* label "00-ESP" whatever region was entered, the same key and label it
\* builds for region 0 with the same year and sex.
C4_NationalBefore1975 ==
    (Served /\ inp.yea < 1975) =>
        /\ out.key = Str(inp.yea) \o "-00-" \o inp.sex
        /\ out.geo = "00-ESP"
        /\ LET national == plot(dat_df, inp.sex, inp.age, inp.yea, 0)
           IN out.key = national.key /\ out.geo = national.geo

C4_Witness ==
    /\ Served /\ inp.yea = 1974 /\ inp.geo = 50 /\ inp.sex = "M"
    /\ out.key = "1974-00-M" /\ out.geo = "00-ESP" /\ out.fig

(* C5 *)

\* the request was refused at the cod2pro_d lookup, before any key was built
RefusedAtRegion ==
    /\ out.exc = "KeyError" /\ out.line = 176
    /\ out.key = "" /\ ~out.looked /\ ~out.fig

\* C5, as stated: for every year in 1900..2022 a request with a region code
\* outside "00".."50" ends in a lookup failure (KeyError, a LookupError)
\* raised before the table key is built, never in a default region or a chart.
C5_UnknownRegionAnyYear ==
    (Served /\ inp.yea \in 1900..2022 /\ UnknownRegion(inp.geo)) =>
        RefusedAtRegion

\* C5, amended: the same for every year in 1975..2022 (before 1975 the
\* region entered is replaced by 0 before it is looked up).
C5_UnknownRegionFrom1975 ==
    (Served /\ inp.yea \in 1975..2022 /\ UnknownRegion(inp.geo)) =>
        RefusedAtRegion

C5_Witness ==
    /\ Served /\ inp.yea = 1975 /\ inp.geo = 77
    /\ RefusedAtRegion

(* C6 *)

\* C6: a request with age outside 0..99, year outside 1900..2022 or region
\* outside 0..50 is rejected with a ValidationFailure before dat_df.loc is
\* attempted and before any curve value is computed.
C6_RangesValidated ==
    (Served /\ (inp.age \notin 0..99 \/ inp.yea \notin 1900..2022
                \/ inp.geo \notin 0..50)) =>
        /\ out.exc = "ValidationFailure"
        /\ ~out.looked
        /\ out.sur0 = <<>> /\ out.drawn = <<>>

(* C7 *)

\* C7: for a valid row the exceedance curve sur0_s has 101 entries, each in
\* [0,1], non-increasing with age, and its entry at age 0 is row[0]/100000.
C7_ExceedanceCurve ==
    (Computed /\ ValidRow(dat_df[out.key])) =>
        /\ Len(out.sur0) = 101
        /\ \A i \in 1..Len(out.sur0) :
              /\ IsFinite(out.sur0[i]) /\ out.sur0[i].den > 0
              /\ 0 <= out.sur0[i].num /\ out.sur0[i].num <= out.sur0[i].den
        /\ \A i \in 1..(Len(out.sur0) - 1) : Leq(out.sur0[i + 1], out.sur0[i])
        /\ out.sur0[1] = Ratio(RowAt(0), 100000)

C7_Witness ==
    /\ Computed /\ ValidRow(dat_df[out.key])
    /\ RowAt(0) = 100000 /\ RowAt(50) < RowAt(0) /\ RowAt(MaxAge) < RowAt(50)
    /\ out.sur0[1].num = out.sur0[1].den
    /\ out.fig

(* C8 *)

C9_NoSharedStateTouched == figs = 0 /\ dat_df \in Tables

(* C10 *)

\* C10: for a valid row, a reference age in 0..99 with row[age] > row[100]
\* and every age j in age+1..100, the value drawn at age j is
\* (row[j-1] - row[j]) / (row[age] - row[100]).
C10_DrawnIsDeathsAtThatAge ==
    (ValidCase /\ TailCount > 0) =>
        /\ Len(out.drawn) = MaxAge - inp.age
        /\ \A j \in (inp.age + 1)..MaxAge :
              /\ IsFinite(DrawnAt(j))
              /\ DrawnAt(j).num = RowAt(j - 1) - RowAt(j)
              /\ DrawnAt(j).den = TailCount

====
